---- MODULE Spec2Model ----
(***************************************************************************)
(* A model of package fileutils (src/fileutils.go):                        *)
(*   waitStableSize  the size-stability prober                             *)
(*   CopyFile        the guarded copy                                      *)
(*   CsvToMap        the CSV-to-mapping decoder                            *)
(*   SubFileList     the recursive directory lister                        *)
(* Each function is a small state machine; the file system, the process    *)
(* environment and other actors on the source path are part of the state.  *)
(***************************************************************************)
EXTENDS Integers, Sequences, FiniteSets, TLC

(***************************************************************************)
(* Bounds of the model.                                                    *)
(***************************************************************************)
MaxSize == 2        \* longest file content, in bytes
MaxAttempts == 4    \* largest attempts argument of a direct waitStableSize call
MaxRecords == 3     \* most records in a CSV input, the header included
MaxFields == 2      \* most fields in a CSV record
MaxNodes == 4       \* most entries in a directory tree, the root included
MaxErrs == 1        \* most entries of a tree that report an error

Bytes == {"x", "y"}

(***************************************************************************)
(* Program constants.                                                      *)
(***************************************************************************)
MinAttempts == 3        \* if attempts < 3 { attempts = 3 }
CopyAttempts == 5       \* const attempts = 5
CopySettleMs == 500     \* const settle = 500 * time.Millisecond
PrevInit == -1          \* var prev int64 = -1

VARIABLES
    \* the file system: the source and the destination path
    fs,
    \* waitStableSize
    wpc, argAttempts, attempts, settle, i, prev, wres, samples, sleeps,
    \* CopyFile
    cpc, stable, cerr, inOpen, inData, inLinked, off,
    \* history: destination before the call, source touched by another actor
    \* during the call, some I/O step failed during the call
    dst0, srcTouched, ioFailed,
    \* the process environment (name -> value)
    environ,
    \* CsvToMap: the file's records, the csv.Reader, the locals, the return
    input, rpos, fieldsPerRecord, header, rows, kpc, csvRet,
    \* SubFileList: the tree walked, the arguments, filepath.Walk's pending
    \* entries, the entries visited so far (history), the local, the return
    tree, prefix, suffix, todo, visited, listOfFiles, lpc, walkRet

fsVars == <<fs>>
waitVars == <<wpc, argAttempts, attempts, settle, i, prev, wres, samples, sleeps>>
copyVars == <<cpc, stable, cerr, inOpen, inData, inLinked, off>>
histVars == <<dst0, srcTouched, ioFailed>>
vars == <<fs, wpc, argAttempts, attempts, settle, i, prev, wres, samples, sleeps,
          cpc, stable, cerr, inOpen, inData, inLinked, off, dst0, srcTouched,
          ioFailed,
          environ, input, rpos, fieldsPerRecord, header, rows, kpc, csvRet,
          tree, prefix, suffix, todo, visited, listOfFiles, lpc, walkRet>>
csvVars == <<input, rpos, fieldsPerRecord, header, rows, kpc, csvRet>>
walkVars == <<tree, prefix, suffix, todo, visited, listOfFiles, lpc, walkRet>>

(***************************************************************************)
(* Files.                                                                  *)
(***************************************************************************)
SrcPath == "src"
DstPath == "dst"
Paths == {SrcPath, DstPath}

RECURSIVE SeqsUpTo(_, _)
SeqsUpTo(S, n) ==
    IF n = 0 THEN {<<>>}
    ELSE LET shorter == SeqsUpTo(S, n - 1)
         IN  shorter \cup {Append(s, x) : s \in shorter, x \in S}

Absent == [kind |-> "absent", data |-> <<>>]
Dir == [kind |-> "dir", data |-> <<>>]
Reg(d) == [kind |-> "reg", data |-> d]
Files == {Absent, Dir} \cup {Reg(d) : d \in SeqsUpTo(Bytes, MaxSize)}

\* os.Stat(path): err != nil when the path is missing or the call is refused.
StatOk(f, ioerr) == f.kind # "absent" /\ ~ioerr
\* fi.Mode().IsRegular()
IsRegular(f) == f.kind = "reg"
\* fi.Size()
Size(f) == Len(f.data)

Err(kind, what) == [kind |-> kind, what |-> what]
NoErr == Err("nil", "")
Pending == Err("pending", "")

(***************************************************************************)
(* waitStableSize(path, attempts, settle)                                  *)
(***************************************************************************)
\* if attempts < 3 { attempts = 3 }
EffectiveAttemptsNoFloor(a) == a
EffectiveAttempts(a) == IF a < MinAttempts THEN MinAttempts ELSE a

\* i > 0 && size == prev
IsStablePair(idx, size, p) == idx > 0 /\ size = p

\* prev = size
NextPrevStale(size, p) == p
NextPrev(size, p) == size

\* err != nil || !fi.Mode().IsRegular()
SampleFailsErrOnly(f, ioerr) == ~StatOk(f, ioerr)
SampleFails(f, ioerr) == ~StatOk(f, ioerr) \/ ~IsRegular(f)

\* One sample as the history records it.
Sampled(size) == [ok |-> TRUE, size |-> size]
FailedSample == [ok |-> FALSE, size |-> 0]
\* What a sample of file f is: a size, or a failure when the path is missing,
\* refused, or not a regular file.
Observe(f, ioerr) ==
    IF StatOk(f, ioerr) /\ IsRegular(f) THEN Sampled(Size(f)) ELSE FailedSample

\* Entry of waitStableSize: the attempts floor and the loop's initial state.
WaitEnter(a, s) ==
    /\ wpc' = IF 0 < EffectiveAttempts(a) THEN "loop" ELSE "ret"
    /\ argAttempts' = a
    /\ attempts' = EffectiveAttempts(a)
    /\ settle' = s
    /\ i' = 0
    /\ prev' = PrevInit
    /\ wres' = FALSE
    /\ samples' = <<>>
    /\ sleeps' = 0

\* Return of waitStableSize to its caller: the frame and its locals are gone.
WaitLeave ==
    /\ wpc' = "idle"
    /\ argAttempts' = 0
    /\ attempts' = 0
    /\ settle' = 0
    /\ i' = 0
    /\ prev' = PrevInit
    /\ wres' = FALSE
    /\ samples' = <<>>
    /\ sleeps' = 0

\* One iteration of the sampling loop: os.Stat, the regular-file test, the
\* comparison with the previous sample, and the sleep that ends the iteration.
\* The iteration that makes i reach attempts falls out of the loop and returns
\* false.
WaitSample ==
    /\ wpc = "loop"
    /\ i < attempts
    /\ \E ioerr \in BOOLEAN :
         LET f == fs[SrcPath] IN
         /\ samples' = Append(samples, Observe(f, ioerr))
         /\ ioFailed' = (ioFailed \/ ~StatOk(f, ioerr))
         /\ IF SampleFails(f, ioerr)
            THEN /\ wres' = FALSE
                 /\ wpc' = "ret"
                 /\ UNCHANGED <<i, prev, sleeps>>
            ELSE IF IsStablePair(i, Size(f), prev)
            THEN /\ wres' = TRUE
                 /\ wpc' = "ret"
                 /\ UNCHANGED <<i, prev, sleeps>>
            ELSE /\ prev' = NextPrev(Size(f), prev)
                 /\ sleeps' = sleeps + 1
                 /\ i' = i + 1
                 /\ wres' = FALSE
                 /\ wpc' = IF i + 1 < attempts THEN "loop" ELSE "ret"
    /\ UNCHANGED <<fs, argAttempts, attempts, settle, copyVars, dst0,
                   srcTouched,
                   environ, csvVars, walkVars>>

\* A direct call of the prober with any attempts argument.
ProbeCall ==
    /\ cpc = "none"
    /\ wpc = "idle"
    /\ \E a \in 0..MaxAttempts : WaitEnter(a, CopySettleMs)
    /\ UNCHANGED <<fs, copyVars, histVars, environ, csvVars, walkVars>>

(***************************************************************************)
(* Other actors on the source path while a call is in progress.            *)
(***************************************************************************)
InCall == wpc = "loop" \/ cpc \in {"probe", "open", "create", "copy", "sync"}

\* What the open handle of CopyFile sees after the path's file became f.
SeenThroughHandle(f) == IF inOpen /\ inLinked THEN f ELSE inData

EnvWrite(f) ==
    /\ fs' = [fs EXCEPT ![SrcPath] = f]
    /\ inData' = SeenThroughHandle(f)
    /\ srcTouched' = TRUE
    /\ UNCHANGED <<waitVars, cpc, stable, cerr, inOpen, inLinked, off, dst0,
                   ioFailed,
                   environ, csvVars, walkVars>>

EnvAppend ==
    /\ InCall
    /\ fs[SrcPath].kind = "reg"
    /\ Size(fs[SrcPath]) < MaxSize
    /\ \E b \in Bytes : EnvWrite(Reg(Append(fs[SrcPath].data, b)))

EnvTruncate ==
    /\ InCall
    /\ fs[SrcPath].kind = "reg"
    /\ Size(fs[SrcPath]) > 0
    /\ EnvWrite(Reg(<<>>))

\* Unlinking the path leaves an open handle on the old file.
EnvRemove ==
    /\ InCall
    /\ fs[SrcPath].kind # "absent"
    /\ fs' = [fs EXCEPT ![SrcPath] = Absent]
    /\ inLinked' = FALSE
    /\ srcTouched' = TRUE
    /\ UNCHANGED <<waitVars, cpc, stable, cerr, inOpen, inData, off, dst0,
                   ioFailed,
                   environ, csvVars, walkVars>>

EnvCreate ==
    /\ InCall
    /\ fs[SrcPath].kind = "absent"
    /\ \E f \in {Reg(<<>>), Dir} : fs' = [fs EXCEPT ![SrcPath] = f]
    /\ srcTouched' = TRUE
    /\ UNCHANGED <<waitVars, copyVars, dst0, ioFailed, environ, csvVars,
                   walkVars>>

(***************************************************************************)
(* CopyFile(src, dst)                                                      *)
(***************************************************************************)
\* The error CopyFile returns when the prober says no.
NotStableErr == Err("notstable", SrcPath)

\* if !waitStableSize(...) { return fmt.Errorf(...) }
AfterProbeAlwaysOpen(ok) == "open"
AfterProbe(ok) == IF ok THEN "open" ELSE "done"

\* os.Create truncates an existing file (O_CREATE|O_TRUNC).
CreatedNoTrunc(f) == IF f.kind = "reg" THEN f ELSE Reg(<<>>)
Created(f) == Reg(<<>>)

\* The deferred Close calls run on every return.
CopyReturn(e) ==
    /\ cerr' = e
    /\ cpc' = "done"
    /\ inOpen' = FALSE

CopyFileCall ==
    /\ cpc = "start"
    /\ cpc' = "probe"
    /\ WaitEnter(CopyAttempts, CopySettleMs)
    /\ UNCHANGED <<fs, stable, cerr, inOpen, inData, inLinked, off, histVars,
                   environ, csvVars, walkVars>>

CopyFileProbed ==
    /\ cpc = "probe"
    /\ wpc = "ret"
    /\ stable' = wres
    /\ cpc' = AfterProbe(wres)
    /\ cerr' = IF AfterProbe(wres) = "done" THEN NotStableErr ELSE cerr
    /\ WaitLeave
    /\ UNCHANGED <<fs, inOpen, inData, inLinked, off, histVars, environ,
                   csvVars, walkVars>>

\* CopyFile with os.Create hoisted before os.Open.
CopyFileOpenAfterCreate ==
    /\ cpc = "open"
    /\ \E ioerr \in BOOLEAN :
         /\ fs' = [fs EXCEPT ![DstPath] =
                      IF fs[DstPath].kind = "dir" THEN Dir ELSE Reg(<<>>)]
         /\ IF fs[SrcPath].kind = "absent" \/ ioerr
            THEN /\ cerr' = Err("io", "open")
                 /\ cpc' = "done"
                 /\ inOpen' = FALSE
                 /\ ioFailed' = TRUE
                 /\ UNCHANGED <<inData, inLinked>>
            ELSE /\ inOpen' = TRUE
                 /\ inData' = fs[SrcPath]
                 /\ inLinked' = TRUE
                 /\ cpc' = "create"
                 /\ UNCHANGED <<cerr, ioFailed>>
    /\ UNCHANGED <<waitVars, stable, off, dst0, srcTouched, environ, csvVars,
                   walkVars>>

\* in, err := os.Open(src)
CopyFileOpen ==
    /\ cpc = "open"
    /\ \E ioerr \in BOOLEAN :
         IF fs[SrcPath].kind = "absent" \/ ioerr
         THEN /\ CopyReturn(Err("io", "open"))
              /\ ioFailed' = TRUE
              /\ UNCHANGED <<inData, inLinked>>
         ELSE /\ inOpen' = TRUE
              /\ inData' = fs[SrcPath]
              /\ inLinked' = TRUE
              /\ cpc' = "create"
              /\ UNCHANGED <<cerr, ioFailed>>
    /\ UNCHANGED <<fs, waitVars, stable, off, dst0, srcTouched, environ,
                   csvVars, walkVars>>

\* out, err := os.Create(dst)
CopyFileCreate ==
    /\ cpc = "create"
    /\ \E ioerr \in BOOLEAN :
         IF fs[DstPath].kind = "dir" \/ ioerr
         THEN /\ CopyReturn(Err("io", "create"))
              /\ ioFailed' = TRUE
              /\ UNCHANGED <<fs, off>>
         ELSE /\ fs' = [fs EXCEPT ![DstPath] = Created(fs[DstPath])]
              /\ off' = 0
              /\ cpc' = "copy"
              /\ UNCHANGED <<cerr, inOpen, ioFailed>>
    /\ UNCHANGED <<waitVars, stable, inData, inLinked, dst0, srcTouched,
                   environ, csvVars, walkVars>>

\* io.Copy(out, in): one read from the source handle and one write to the
\* destination per step, until the read reports end of file.
CopyFileChunk ==
    /\ cpc = "copy"
    /\ \E ioerr \in BOOLEAN :
         IF inData.kind = "dir" \/ ioerr
         THEN /\ CopyReturn(Err("io", "copy"))
              /\ ioFailed' = TRUE
              /\ UNCHANGED <<fs, off>>
         ELSE IF off < Len(inData.data)
         THEN /\ fs' = [fs EXCEPT ![DstPath] =
                          Reg(Append(fs[DstPath].data, inData.data[off + 1]))]
              /\ off' = off + 1
              /\ UNCHANGED <<cpc, cerr, inOpen, ioFailed>>
         ELSE /\ cpc' = "sync"
              /\ UNCHANGED <<fs, off, cerr, inOpen, ioFailed>>
    /\ UNCHANGED <<waitVars, stable, inData, inLinked, dst0, srcTouched,
                   environ, csvVars, walkVars>>

\* _ = out.Sync(); return nil
CopyFileSync ==
    /\ cpc = "sync"
    /\ \E ioerr \in BOOLEAN : ioFailed' = (ioFailed \/ ioerr)
    /\ CopyReturn(NoErr)
    /\ UNCHANGED <<fs, waitVars, stable, inData, inLinked, off, dst0,
                   srcTouched,
                   environ, csvVars, walkVars>>

(***************************************************************************)
(* The process environment.                                                *)
(***************************************************************************)
Unset == [set |-> FALSE, parses |-> FALSE, val |-> 0]
Junk == [set |-> TRUE, parses |-> FALSE, val |-> 0]
Num(n) == [set |-> TRUE, parses |-> TRUE, val |-> n]

(***************************************************************************)
(* CsvToMap(fileName, separator)                                           *)
(* The file is the sequence of records encoding/csv reads from it with the *)
(* given separator; a record with a quoting error cannot be decoded.       *)
(***************************************************************************)
Cells == {"a", "b"}

Rec(f) == [bad |-> FALSE, fields |-> f]
BadRecord == [bad |-> TRUE, fields |-> <<>>]
Records ==
    {BadRecord} \cup {Rec(f) : f \in UNION {[1..n -> Cells] : n \in 1..MaxFields}}

\* csv.Reader.Read with FieldsPerRecord = 0: the first record fixes the field
\* count, a later record with another count is ErrFieldCount.
ReadResult(inp, pos, fpr) ==
    IF pos > Len(inp) THEN [err |-> "EOF", record |-> <<>>, fpr |-> fpr]
    ELSE IF inp[pos].bad THEN [err |-> "quote", record |-> <<>>, fpr |-> fpr]
    ELSE IF fpr = 0
    THEN [err |-> "nil", record |-> inp[pos].fields, fpr |-> Len(inp[pos].fields)]
    ELSE IF Len(inp[pos].fields) # fpr
    THEN [err |-> "fieldcount", record |-> inp[pos].fields, fpr |-> fpr]
    ELSE [err |-> "nil", record |-> inp[pos].fields, fpr |-> fpr]

\* dict[key] = v
PutKeepFirst(d, key, v) ==
    IF key \in DOMAIN d THEN d
    ELSE [x \in DOMAIN d \cup {key} |-> IF x = key THEN v ELSE d[x]]
Put(d, key, v) == [x \in DOMAIN d \cup {key} |-> IF x = key THEN v ELSE d[x]]

EmptyDict == [x \in {} |-> ""]

\* for i := range header { dict[header[i]] = record[i] }, from index k on
RECURSIVE DictFrom(_, _, _, _)
DictFrom(hdr, record, k, d) ==
    IF k > Len(hdr) THEN d
    ELSE DictFrom(hdr, record, k + 1, Put(d, hdr[k], record[k]))

\* return nil, err
ErrReturnPartial(r, e) == [isNil |-> FALSE, rows |-> r, err |-> e]
ErrReturn(r, e) == [isNil |-> TRUE, rows |-> <<>>, err |-> e]

\* return rows, nil
RowsReturn(r) == [isNil |-> FALSE, rows |-> r, err |-> NoErr]

NoReturn == [isNil |-> TRUE, rows |-> <<>>, err |-> Pending]

\* data, err := os.Open(fileName), then the reader and the locals.
CsvToMapOpen ==
    /\ kpc = "start"
    /\ \E ioerr \in BOOLEAN :
         IF ioerr
         THEN /\ csvRet' = ErrReturn(rows, Err("io", "open"))
              /\ kpc' = "done"
              /\ ioFailed' = TRUE
         ELSE /\ kpc' = "loop"
              /\ UNCHANGED <<csvRet, ioFailed>>
    /\ rpos' = 1
    /\ fieldsPerRecord' = 0
    /\ header' = <<>>
    /\ rows' = <<>>
    /\ UNCHANGED <<input, fs, waitVars, copyVars, dst0, srcTouched, environ,
                   walkVars>>

\* One iteration of the read loop. A Go record has at least one field, so the
\* empty sequence stands for the nil header.
CsvToMapRead ==
    /\ kpc = "loop"
    /\ LET r == ReadResult(input, rpos, fieldsPerRecord) IN
       /\ fieldsPerRecord' = r.fpr
       /\ IF r.err = "EOF"
          THEN /\ csvRet' = RowsReturn(rows)
               /\ kpc' = "done"
               /\ UNCHANGED <<rpos, header, rows>>
          ELSE IF r.err # "nil"
          THEN /\ csvRet' = ErrReturn(rows, Err("decode", r.err))
               /\ kpc' = "done"
               /\ rpos' = rpos + 1
               /\ UNCHANGED <<header, rows>>
          ELSE IF header = <<>>
          THEN /\ header' = r.record
               /\ rpos' = rpos + 1
               /\ UNCHANGED <<rows, kpc, csvRet>>
          ELSE /\ rows' = Append(rows, DictFrom(header, r.record, 1, EmptyDict))
               /\ rpos' = rpos + 1
               /\ UNCHANGED <<header, kpc, csvRet>>
    /\ UNCHANGED <<input, fs, waitVars, copyVars, histVars, environ, walkVars>>

(***************************************************************************)
(* SubFileList(path, prefix, suffix)                                       *)
(* A tree is its entries 1..n, entry 1 the root: each entry's parent, base *)
(* name, kind, and the error it reports to the walk (Lstat failing on it,  *)
(* or reading it as a directory failing).                                  *)
(***************************************************************************)
Names == {<<"l">>, <<"l", "t">>, <<"x", "t">>}
Prefixes == {<<>>, <<"l">>}
Suffixes == {<<>>, <<"t">>}

CharCode(c) == CASE c = "l" -> 108 [] c = "t" -> 116 [] c = "x" -> 120

\* Byte-wise order of names, as sort.Strings orders a directory's entries.
RECURSIVE NameLess(_, _)
NameLess(a, b) ==
    IF a = <<>> THEN b # <<>>
    ELSE IF b = <<>> THEN FALSE
    ELSE IF Head(a) = Head(b) THEN NameLess(Tail(a), Tail(b))
    ELSE CharCode(Head(a)) < CharCode(Head(b))

Children(t, k) == {c \in 1..t.n : t.parent[c] = k}

\* Trees up to renaming of entries: the entries are numbered level by level,
\* the entries of one directory in the order of their names.
ParentMaps(n) ==
    {p \in [1..n -> 0..(n - 1)] :
        /\ p[1] = 0
        /\ \A k \in 2..n : p[k] >= 1 /\ p[k] < k
        /\ \A k \in 3..n : p[k - 1] <= p[k]}
KindMaps(n, p) ==
    {d \in [1..n -> BOOLEAN] : \A k \in 2..n : d[p[k]]}
NameMaps(n, p) ==
    {m \in [1..n -> Names] :
        \A j, k \in 2..n : (j < k /\ p[j] = p[k]) => NameLess(m[j], m[k])}
ErrMaps(n, d) ==
    {e \in [1..n -> {"none", "lstat", "readdir"}] :
        /\ \A k \in 1..n : e[k] = "readdir" => d[k]
        /\ Cardinality({k \in 1..n : e[k] # "none"}) <= MaxErrs}
MkTree(n, p, d, m, e) ==
    [n |-> n, parent |-> p, isDir |-> d, name |-> m, err |-> e]

\* filepath.Join(path, name), from the root argument down to entry k
RECURSIVE PathOf(_, _)
PathOf(t, k) ==
    IF k = 1 THEN <<t.name[1]>> ELSE Append(PathOf(t, t.parent[k]), t.name[k])

\* readDirNames: the names of a directory's entries, sorted
RECURSIVE SortByName(_, _)
SortByName(t, set) ==
    IF set = {} THEN <<>>
    ELSE LET m == CHOOSE c \in set :
                    \A d \in set \ {c} : NameLess(t.name[c], t.name[d])
         IN  <<m>> \o SortByName(t, set \ {m})

\* strings.HasPrefix, strings.HasSuffix
HasPrefix(str, pre) ==
    Len(pre) <= Len(str) /\ SubSeq(str, 1, Len(pre)) = pre
HasSuffix(str, suf) ==
    Len(suf) <= Len(str) /\ SubSeq(str, Len(str) - Len(suf) + 1, Len(str)) = suf

\* strings.HasPrefix(info.Name(), prefix) && strings.HasSuffix(info.Name(), suffix)
MatchesEither(nm, pre, suf) == HasPrefix(nm, pre) \/ HasSuffix(nm, suf)
Matches(nm, pre, suf) == HasPrefix(nm, pre) /\ HasSuffix(nm, suf)

\* if err != nil { return nil, err }
WalkErrReturn(l, e) == [paths |-> <<>>, err |-> e]
\* return listOfFiles, nil
WalkOkReturn(l) == [paths |-> l, err |-> NoErr]

NoWalkReturn == [paths |-> <<>>, err |-> Pending]

\* var listOfFiles []string; filepath.Walk(path, ...) starts at the root.
SubFileListCall ==
    /\ lpc = "start"
    /\ lpc' = "walk"
    /\ todo' = <<1>>
    /\ visited' = <<>>
    /\ listOfFiles' = <<>>
    /\ UNCHANGED <<tree, prefix, suffix, walkRet, fs, waitVars, copyVars,
                   histVars,
                   environ, csvVars>>

\* filepath.Walk reaches its next entry and calls the function literal on it:
\* with the Lstat error, with the error of reading the directory, or with
\* none. The literal returns the error it is given, which ends the walk and
\* makes SubFileList return nil and that error; without one it appends the
\* path when the base name matches, and the walk goes on into a directory's
\* sorted entries.
WalkVisit ==
    /\ lpc = "walk"
    /\ todo # <<>>
    /\ LET k == Head(todo) IN
       /\ visited' = Append(visited, k)
       /\ IF tree.err[k] # "none"
          THEN /\ walkRet' = WalkErrReturn(listOfFiles,
                                            Err(tree.err[k], PathOf(tree, k)))
               /\ lpc' = "done"
               /\ UNCHANGED <<todo, listOfFiles>>
          ELSE /\ listOfFiles' =
                    IF Matches(tree.name[k], prefix, suffix)
                    THEN Append(listOfFiles, PathOf(tree, k))
                    ELSE listOfFiles
               /\ todo' = IF tree.isDir[k]
                          THEN SortByName(tree, Children(tree, k)) \o Tail(todo)
                          ELSE Tail(todo)
               /\ UNCHANGED <<lpc, walkRet>>
    /\ UNCHANGED <<tree, prefix, suffix, fs, waitVars, copyVars, histVars,
                   environ,
                   csvVars>>

\* filepath.Walk returned nil: return listOfFiles, nil
SubFileListReturn ==
    /\ lpc = "walk"
    /\ todo = <<>>
    /\ walkRet' = WalkOkReturn(listOfFiles)
    /\ lpc' = "done"
    /\ UNCHANGED <<tree, prefix, suffix, todo, visited, listOfFiles, fs,
                   waitVars,
                   copyVars, histVars, environ, csvVars>>

(***************************************************************************)
(* Specifications.                                                         *)
(***************************************************************************)
CsvIdle ==
    /\ input = <<>>
    /\ rpos = 1
    /\ fieldsPerRecord = 0
    /\ header = <<>>
    /\ rows = <<>>
    /\ kpc = "none"
    /\ csvRet = NoReturn

WalkIdle ==
    /\ tree = MkTree(1, <<0>>, <<TRUE>>, << <<"l">> >>, <<"none">>)
    /\ prefix = <<>>
    /\ suffix = <<>>
    /\ todo = <<>>
    /\ visited = <<>>
    /\ listOfFiles = <<>>
    /\ lpc = "none"
    /\ walkRet = NoWalkReturn

InitCommon ==
    /\ wpc = "idle"
    /\ argAttempts = 0
    /\ attempts = 0
    /\ settle = 0
    /\ i = 0
    /\ prev = PrevInit
    /\ wres = FALSE
    /\ samples = <<>>
    /\ sleeps = 0
    /\ stable = FALSE
    /\ cerr = Pending
    /\ inOpen = FALSE
    /\ inData = Absent
    /\ inLinked = FALSE
    /\ off = 0
    /\ srcTouched = FALSE
    /\ ioFailed = FALSE

CopyIdle ==
    /\ InitCommon
    /\ cpc = "none"
    /\ fs = [p \in Paths |-> Absent]
    /\ dst0 = Absent
    /\ environ = [attempts |-> Unset, settle |-> Unset]

\* A direct call of waitStableSize on any source file.
InitProbe ==
    /\ InitCommon
    /\ CsvIdle
    /\ WalkIdle
    /\ cpc = "none"
    /\ fs \in [Paths -> Files]
    /\ fs[DstPath] = Absent
    /\ dst0 = fs[DstPath]
    /\ environ = [attempts |-> Unset, settle |-> Unset]

NextEnv == EnvAppend \/ EnvTruncate \/ EnvRemove \/ EnvCreate

NextProbe == ProbeCall \/ WaitSample \/ NextEnv

SpecProbe == InitProbe /\ [][NextProbe]_vars

\* A call of CopyFile on any source and destination.
InitCopy ==
    /\ InitCommon
    /\ CsvIdle
    /\ WalkIdle
    /\ cpc = "start"
    /\ fs \in [Paths -> Files]
    /\ dst0 = fs[DstPath]
    /\ environ = [attempts |-> Unset, settle |-> Unset]

NextCopy ==
    \/ CopyFileCall
    \/ WaitSample
    \/ CopyFileProbed
    \/ CopyFileOpen
    \/ CopyFileCreate
    \/ CopyFileChunk
    \/ CopyFileSync
    \/ NextEnv

SpecCopy == InitCopy /\ [][NextCopy]_vars

\* The process environment CopyFile runs in: any values of the two overrides.
EnvAttemptValues == {Unset, Junk, Num(2), Num(3), Num(7), Num(20), Num(999)}
EnvSettleValues ==
    {Unset, Junk, Num(50), Num(100), Num(250), Num(1000), Num(2000)}

InitEnv ==
    /\ InitCommon
    /\ CsvIdle
    /\ WalkIdle
    /\ cpc = "start"
    /\ fs = [p \in Paths |-> IF p = SrcPath THEN Reg(<<"x">>) ELSE Absent]
    /\ dst0 = fs[DstPath]
    /\ environ \in [attempts : EnvAttemptValues, settle : EnvSettleValues]

SpecEnv == InitEnv /\ [][NextCopy]_vars

\* A call of CsvToMap on any file of up to MaxRecords records.
InitCsv ==
    /\ CopyIdle
    /\ WalkIdle
    /\ input \in UNION {[1..n -> Records] : n \in 0..MaxRecords}
    /\ rpos = 1
    /\ fieldsPerRecord = 0
    /\ header = <<>>
    /\ rows = <<>>
    /\ kpc = "start"
    /\ csvRet = NoReturn

NextCsv == CsvToMapOpen \/ CsvToMapRead

SpecCsv == InitCsv /\ [][NextCsv]_vars

\* A call of SubFileList on any tree of up to MaxNodes entries.
InitWalk ==
    /\ CopyIdle
    /\ CsvIdle
    /\ \E n \in 1..MaxNodes : \E p \in ParentMaps(n) : \E d \in KindMaps(n, p) :
         \E m \in NameMaps(n, p) : \E e \in ErrMaps(n, d) :
             tree = MkTree(n, p, d, m, e)
    /\ prefix \in Prefixes
    /\ suffix \in Suffixes
    /\ todo = <<>>
    /\ visited = <<>>
    /\ listOfFiles = <<>>
    /\ lpc = "start"
    /\ walkRet = NoWalkReturn

NextWalk == SubFileListCall \/ WalkVisit \/ SubFileListReturn

SpecWalk == InitWalk /\ [][NextWalk]_vars

(***************************************************************************)
(* Properties of waitStableSize (SpecProbe).                               *)
(***************************************************************************)
MaxOf(a, b) == IF a >= b THEN a ELSE b

\* Samples k-1 and k are both sizes, and the same size.
EqualPair(k) ==
    /\ k \in 2..Len(samples)
    /\ samples[k - 1].ok
    /\ samples[k].ok
    /\ samples[k].size = samples[k - 1].size

\* Every sample taken is a size and differs from the one before it.
AllDiffer ==
    /\ \A k \in 1..Len(samples) : samples[k].ok
    /\ \A k \in 2..Len(samples) : samples[k].size # samples[k - 1].size

\* C1: waitStableSize returns true at the first sample k >= 2 whose size equals
\* the size of sample k-1 and takes no sample after it; it returns true only
\* on such a pair, and never takes more than max(attempts, 3) samples.
C1_FirstEqualPairReturnsTrue ==
    /\ Len(samples) <= MaxOf(argAttempts, 3)
    /\ \A k \in 2..Len(samples) :
         EqualPair(k) => k = Len(samples) /\ wpc = "ret" /\ wres = TRUE
    /\ (wpc = "ret" /\ wres = TRUE) => EqualPair(Len(samples))

\* C1 witness: the call returned true on its fourth sample, after three
\* samples that all differed.
C1_Witness ==
    /\ cpc = "none"
    /\ wpc = "ret"
    /\ wres = TRUE
    /\ Len(samples) = 4
    /\ EqualPair(4)

\* C2: for a regular file whose size differs between every two consecutive
\* samples, waitStableSize returns false, and has then taken exactly attempts
\* samples (3 when the caller passed fewer than 3); it never returns true.
C2_AlwaysChangingReturnsFalse ==
    (wpc = "ret" /\ AllDiffer) =>
        /\ wres = FALSE
        /\ Len(samples) = (IF argAttempts >= 3 THEN argAttempts ELSE 3)

\* C2 witness: the caller passed 1, and the call returned false after three
\* samples of different sizes.
C2_Witness ==
    /\ cpc = "none"
    /\ wpc = "ret"
    /\ argAttempts = 1
    /\ AllDiffer
    /\ Len(samples) = 3
    /\ wres = FALSE

\* C3: a failed sample (path missing, refused, or not a regular file) is the
\* last one: the call has returned false with it, and has slept only after the
\* samples before it. A path missing at the first sample gives one sample.
C3_FailedSampleReturnsFalse ==
    \A k \in 1..Len(samples) :
        ~samples[k].ok =>
            /\ k = Len(samples)
            /\ wpc = "ret"
            /\ wres = FALSE
            /\ sleeps = k - 1

\* C3 witness: the path was a directory at the third sample, after two good
\* samples.
C3_Witness ==
    /\ cpc = "none"
    /\ wpc = "ret"
    /\ Len(samples) = 3
    /\ ~samples[3].ok
    /\ fs[SrcPath] = Dir
    /\ wres = FALSE

\* C3, second case reached: the path did not exist at the first sample.
C3_MissingAtFirstSample ==
    /\ cpc = "none"
    /\ wpc = "ret"
    /\ ~srcTouched
    /\ fs[SrcPath] = Absent
    /\ Len(samples) = 1

(***************************************************************************)
(* Properties of CopyFile (SpecCopy, SpecEnv).                             *)
(***************************************************************************)
\* C4: CopyFile on a regular source file that no other actor touches during
\* the call, with no failing I/O step, returns nil and leaves the destination
\* a regular file with exactly the source's bytes.
C4_CopyIsByteIdentical ==
    (cpc = "done" /\ ~srcTouched /\ ~ioFailed /\ fs[SrcPath].kind = "reg") =>
        /\ cerr = NoErr
        /\ fs[DstPath] = fs[SrcPath]

\* C4 witness: a one-byte source replaced a longer destination.
C4_Witness ==
    /\ cpc = "done"
    /\ ~srcTouched
    /\ ~ioFailed
    /\ cerr = NoErr
    /\ fs[SrcPath] = Reg(<<"x">>)
    /\ dst0 = Reg(<<"y", "y">>)
    /\ fs[DstPath] = Reg(<<"x">>)

\* C5: when the prober returned false, CopyFile returns the not-stable error
\* naming the source path, and the destination is what it was before the call.
C5_NotStableLeavesDestination ==
    (cpc = "done" /\ ~stable) =>
        /\ cerr = NotStableErr
        /\ fs[DstPath] = dst0

\* C5 witness: the source kept changing, the destination held content.
C5_Witness ==
    /\ cpc = "done"
    /\ ~stable
    /\ srcTouched
    /\ fs[SrcPath].kind = "reg"
    /\ ~ioFailed
    /\ dst0 = Reg(<<"y">>)
    /\ fs[DstPath] = dst0

\* The value an override resolves to: itself when it parses and lies in
\* [lo, hi], the default otherwise.
Resolved(v, lo, hi, default) ==
    IF v.set /\ v.parses /\ lo <= v.val /\ v.val <= hi THEN v.val ELSE default

\* C6: the attempt count and the settle interval the prober runs with are the
\* environment's overrides when they parse and lie in [3,20] and [100,1000],
\* and the defaults 5 and 500 otherwise.
C6_BoundsFromEnvironment ==
    (cpc = "probe" /\ wpc = "loop") =>
        /\ argAttempts = Resolved(environ.attempts, 3, 20, 5)
        /\ settle = Resolved(environ.settle, 100, 1000, 500)

\* C10: the destination is not created or truncated before the prober has
\* returned true and the source has been opened: up to and including the open
\* step it is what it was before the call, also when the open fails.
C10_DestinationUntouchedBeforeOpen ==
    /\ cpc \in {"start", "probe", "open", "create"} => fs[DstPath] = dst0
    /\ fs[DstPath] # dst0 => stable
    /\ (cpc = "done" /\ cerr = Err("io", "open")) => fs[DstPath] = dst0

\* C10 witness: the source passed the probe, another actor removed it, the
\* open failed, and the destination still holds its content.
C10_Witness ==
    /\ cpc = "done"
    /\ stable
    /\ srcTouched
    /\ fs[SrcPath] = Absent
    /\ cerr = Err("io", "open")
    /\ dst0 = Reg(<<"y">>)
    /\ fs[DstPath] = dst0

(***************************************************************************)
(* Properties of CsvToMap (SpecCsv).                                       *)
(***************************************************************************)
\* Record k cannot be decoded: a quoting error, or a field count other than
\* the first record's.
Malformed(k) ==
    \/ input[k].bad
    \/ (~input[1].bad /\ Len(input[k].fields) # Len(input[1].fields))

WellFormedInput == \A k \in 1..Len(input) : ~Malformed(k)

\* The last header position that carries the same name as position p.
LastWithName(hdr, p) ==
    CHOOSE q \in p..Len(hdr) :
        hdr[q] = hdr[p] /\ \A r \in (q + 1)..Len(hdr) : hdr[r] # hdr[p]

\* C7: for a well-formed input of n >= 1 records that could be opened,
\* CsvToMap returns no error and n-1 rows in input order; row j has the
\* header's names as keys and maps the name at header position p to the field
\* of record j+1 at the last position carrying that name. The header is not a
\* row, and a header alone gives an empty, non-nil sequence.
C7_RowsZipHeaderWithRecords ==
    (kpc = "done" /\ ~ioFailed /\ Len(input) >= 1 /\ WellFormedInput) =>
        LET hdr == input[1].fields IN
        /\ csvRet.err = NoErr
        /\ ~csvRet.isNil
        /\ Len(csvRet.rows) = Len(input) - 1
        /\ \A j \in 1..Len(csvRet.rows) :
             /\ DOMAIN csvRet.rows[j] = {hdr[p] : p \in 1..Len(hdr)}
             /\ \A p \in 1..Len(hdr) :
                  csvRet.rows[j][hdr[p]] =
                      input[j + 1].fields[LastWithName(hdr, p)]

\* C7 witness: a header naming one column twice, and two data records whose
\* fields under that name differ.
C7_Witness ==
    /\ kpc = "done"
    /\ ~ioFailed
    /\ WellFormedInput
    /\ Len(input) = 3
    /\ input[1].fields = <<"a", "a">>
    /\ input[2].fields = <<"a", "b">>
    /\ input[3].fields = <<"b", "a">>
    /\ Len(csvRet.rows) = 2

\* C7, second case reached: a header and no data record.
C7_HeaderOnly ==
    /\ kpc = "done"
    /\ ~ioFailed
    /\ WellFormedInput
    /\ Len(input) = 1
    /\ csvRet = RowsReturn(<<>>)

\* C8: when some record is malformed, CsvToMap returns a decode error and nil,
\* whatever records came before it; it returns rows only after reading to the
\* end of the input without an error.
C8_MalformedRecordReturnsNoRows ==
    /\ (kpc = "done" /\ ~ioFailed /\ \E k \in 1..Len(input) : Malformed(k)) =>
          /\ csvRet.err.kind = "decode"
          /\ csvRet.isNil
          /\ csvRet.rows = <<>>
    /\ (kpc = "done" /\ ~csvRet.isNil) =>
          /\ csvRet.err = NoErr
          /\ rpos = Len(input) + 1
          /\ WellFormedInput

\* C8 witness: a header, a valid data record, then a record one field short.
C8_Witness ==
    /\ kpc = "done"
    /\ Len(input) = 3
    /\ ~Malformed(2)
    /\ ~input[3].bad
    /\ Len(input[1].fields) = 2
    /\ Len(input[3].fields) = 1
    /\ Len(rows) = 1
    /\ csvRet.err = Err("decode", "fieldcount")

(***************************************************************************)
(* Properties of SubFileList (SpecWalk).                                   *)
(***************************************************************************)
\* Entry a is entry k or one of its ancestors.
RECURSIVE IsWithin(_, _, _)
IsWithin(t, k, a) ==
    IF k = a THEN TRUE
    ELSE IF k = 1 THEN FALSE
    ELSE IsWithin(t, t.parent[k], a)

Subtree(t, a) == {k \in 1..t.n : IsWithin(t, k, a)}

\* The base name starts with pre and ends with suf.
StartsAndEnds(nm, pre, suf) ==
    /\ Len(pre) <= Len(nm)
    /\ Len(suf) <= Len(nm)
    /\ \A q \in 1..Len(pre) : nm[q] = pre[q]
    /\ \A q \in 1..Len(suf) : nm[Len(nm) - Len(suf) + q] = suf[q]

\* seq is a depth-first pre-order of the whole tree: it starts at the root,
\* holds every entry once, and each entry is followed at once by the rest of
\* its subtree.
IsPreOrder(t, seq) ==
    /\ Len(seq) = t.n
    /\ {seq[q] : q \in 1..Len(seq)} = 1..t.n
    /\ seq[1] = 1
    /\ \A q \in 1..Len(seq) :
         {seq[r] : r \in q..(q + Cardinality(Subtree(t, seq[q])) - 1)}
             = Subtree(t, seq[q])

\* The paths of the entries of seq whose base name matches, in seq's order.
RECURSIVE MatchingPaths(_, _, _, _)
MatchingPaths(t, seq, pre, suf) ==
    IF seq = <<>> THEN <<>>
    ELSE (IF StartsAndEnds(t.name[Head(seq)], pre, suf)
          THEN <<PathOf(t, Head(seq))>> ELSE <<>>)
         \o MatchingPaths(t, Tail(seq), pre, suf)

\* C9: when no entry reports an error, SubFileList returns no error and the
\* full paths of exactly the entries, files and directories alike, whose base
\* name starts with prefix and ends with suffix, each once, in a depth-first
\* pre-order of the tree; when an entry reports an error, it returns that
\* entry's error and no paths.
C9_MatchesInPreOrderOrError ==
    lpc = "done" =>
        IF \E k \in 1..tree.n : tree.err[k] # "none"
        THEN LET last == visited[Len(visited)] IN
             /\ tree.err[last] # "none"
             /\ walkRet.err = Err(tree.err[last], PathOf(tree, last))
             /\ walkRet.paths = <<>>
        ELSE /\ walkRet.err = NoErr
             /\ IsPreOrder(tree, visited)
             /\ walkRet.paths = MatchingPaths(tree, visited, prefix, suffix)

\* C9 witness: the tree xt/{l/{lt}, lt} with prefix l and suffix t: the two lt
\* entries are returned, the one below l before the one beside l; the root xt
\* and the directory l are visited and do not match.
C9_Witness ==
    /\ lpc = "done"
    /\ tree.n = 4
    /\ prefix = <<"l">>
    /\ suffix = <<"t">>
    /\ \A k \in 1..4 : tree.err[k] = "none"
    /\ walkRet.paths = << << <<"x", "t">>, <<"l">>, <<"l", "t">> >>,
                          << <<"x", "t">>, <<"l", "t">> >> >>
    /\ Len(visited) = 4

\* C9, second case reached: an entry reported an error after a match had
\* been collected.
C9_ErrorAfterMatch ==
    /\ lpc = "done"
    /\ walkRet.err.kind = "lstat"
    /\ listOfFiles # <<>>
    /\ walkRet.paths = <<>>

====
